---- MODULE Spec2Model ----
(***************************************************************************)
(* Model of pyflocks' aggregate plotting script (analysis/plot_aggregate)  *)
(* and of the frame plotting helpers of util/plot.                         *)
(*                                                                         *)
(* Directory / experiment names are sequences of one-character strings so  *)
(* that Python's substring test, split('-') and string ordering can be     *)
(* computed.  Nested dictionaries are kept as insertion-ordered key lists  *)
(* per path plus a value per leaf path.  Floating point numbers are exact  *)
(* rationals <<numerator, denominator>>.                                   *)
(***************************************************************************)
EXTENDS Integers, Sequences, FiniteSets, TLC

VARIABLES
    disk,       \* directory listing of `path`: name -> [isdir, model]
    aggregate,  \* the parameter list (-a options / param_list / param)
    entry,      \* "none" | "cli" (plot_results) | "lib" (direct calls)
    pc,         \* position of the running script
    steps,      \* sequence of the steps / calls performed so far
    models,     \* dict returned by find_models
    stats,      \* dict returned by aggregate_model_stats
    batches,    \* batch name -> exp_in_batch, as processed by the aggregation
    plt,        \* the shared pyplot surface
    exc,        \* the exception that ended the run (or NoExc)
    call        \* arguments of the last util/plot call

vars == << disk, aggregate, entry, pc, steps, models, stats, batches, plt, exc, call >>

----------------------------------------------------------------------------
(* Bounds of the model *)

MaxEntries == 3
TrajLen == 12
MaxFrame == 5
MaxWindow == 3
MaxParticles == 2
MaxCalls == 2
WorldSize == 5

(* skip: int = 10 *)
DefaultSkip == 10

----------------------------------------------------------------------------
(* Python strings *)

Ord(c) ==
    CASE c = "-" -> 45
      [] c = "0" -> 48
      [] c = "1" -> 49
      [] c = "2" -> 50
      [] c = "3" -> 51
      [] c = "a" -> 97
      [] c = "b" -> 98

RECURSIVE StrLess(_, _)
StrLess(s, t) ==
    IF s = << >> THEN t # << >>
    ELSE IF t = << >> THEN FALSE
    ELSE IF Ord(Head(s)) < Ord(Head(t)) THEN TRUE
    ELSE IF Ord(Head(s)) > Ord(Head(t)) THEN FALSE
    ELSE StrLess(Tail(s), Tail(t))

RECURSIVE Sorted(_)
Sorted(S) ==
    IF S = {} THEN << >>
    ELSE LET m == CHOOSE x \in S : \A y \in S \ {x} : StrLess(x, y)
         IN  << m >> \o Sorted(S \ {m})

(* sub in s *)
Contains(sub, s) ==
    \E i \in 0 .. (Len(s) - Len(sub)) : SubSeq(s, i + 1, i + Len(sub)) = sub

HasDash(m) == \E i \in 1 .. Len(m) : m[i] = "-"

(* m.split('-') *)
RECURSIVE Split(_)
Split(m) ==
    IF ~ HasDash(m) THEN << m >>
    ELSE LET i == CHOOSE k \in 1 .. Len(m) :
                      m[k] = "-" /\ \A j \in 1 .. (k - 1) : m[j] # "-"
         IN  << SubSeq(m, 1, i - 1) >> \o Split(SubSeq(m, i + 1, Len(m)))

(* int(s) for a string of decimal digits *)
RECURSIVE ParseInt(_)
ParseInt(s) ==
    IF s = << >> THEN 0
    ELSE 10 * ParseInt(SubSeq(s, 1, Len(s) - 1)) + (Ord(s[Len(s)]) - 48)

----------------------------------------------------------------------------
(* Numbers *)

RatAdd(a, b) == << a[1] * b[2] + b[1] * a[2], a[2] * b[2] >>
RatDiv(a, n) == << a[1], a[2] * n >>
RatEq(a, b)  == a[1] * b[2] = b[1] * a[2]

RECURSIVE SeqSum(_)
SeqSum(s) == IF s = << >> THEN 0 ELSE Head(s) + SeqSum(Tail(s))

(* np.mean of a time series *)
NpMean(s) == << SeqSum(s), Len(s) >>

----------------------------------------------------------------------------
(* Nested dictionaries *)

PKey(v) == [k |-> "param", v |-> v, n |-> ""]
SKey(n) == [k |-> "stat",  v |-> 0, n |-> n]

EmptyDict == [kids |-> (<< >> :> << >>), val |-> << >>]

Keys(d, path) == d.kids[path]
KeySet(d, path) == { d.kids[path][i] : i \in 1 .. Len(d.kids[path]) }
HasKey(d, path, key) == key \in KeySet(d, path)

(* tmp[pval] = dict() *)
SetDict(d, path, key) ==
    [kids |-> (Append(path, key) :> << >>)
                  @@ [d.kids EXCEPT ![path] = Append(@, key)],
     val  |-> d.val]

(* tmp[stat] = x *)
SetVal(d, path, key, x) ==
    IF HasKey(d, path, key)
    THEN [d EXCEPT !.val[Append(path, key)] = x]
    ELSE [kids |-> [d.kids EXCEPT ![path] = Append(@, key)],
          val  |-> (Append(path, key) :> x) @@ d.val]

----------------------------------------------------------------------------
(* analysis/plot_aggregate: find_models and aggregate_model_stats *)

(* titles.keys(), in definition order *)
Titles == << "avg_abs_vel", "std_angle", "std_dist_cmass", "psi_cmass" >>

SeqToSet(s) == { s[i] : i \in 1 .. Len(s) }

(* the --model option; every experiment directory name contains it *)
ModelName == << "a" >>

(* find_models: directories of `path` whose name contains `name`, loaded *)
FindModels(listing, name) ==
    LET dirs == { d \in DOMAIN listing : listing[d].isdir /\ Contains(name, d) }
    IN  [d \in dirs |-> listing[d].model]

StatIndex(s) == CHOOSE i \in 1 .. Len(Titles) : Titles[i] = s

(* process_space / process_angles / emergence_psi on the trajectory from index *)
(* skip on: every statistic is a series with one value per remaining time point *)
ProcessStats(m, skip) ==
    LET X == SubSeq(m.traj, skip + 1, Len(m.traj))
    IN  [s \in SeqToSet(Titles) |-> [i \in 1 .. Len(X) |-> StatIndex(s) * X[i]]]

ModelParams(ms) == UNION { DOMAIN ms[m].params : m \in DOMAIN ms }

(* the check of param_list against the model params *)
BadParamList(ms, param_list) ==
    \E i \in 1 .. Len(param_list) : param_list[i] \notin ModelParams(ms)

BatchNames(ms) == Sorted({ m \in DOMAIN ms : ~ HasDash(m) })

ExpInBatch(ms, batch) == Sorted({ m \in DOMAIN ms : Contains(batch, m) })

RepeatIndex(m) == IF Len(Split(m)) > 1 THEN ParseInt(Split(m)[2]) ELSE 0

SetMax(S) == CHOOSE x \in S : \A y \in S : y <= x

BatchCount(exps) == SetMax({ RepeatIndex(exps[i]) : i \in 1 .. Len(exps) }) + 1

(* the print of the batch's params reads every name of model_params *)
PrintFails(ms, batch) ==
    \E p \in ModelParams(ms) : p \notin DOMAIN ms[batch].params

(* the walk with `tmp = tmp[pval]` left out: every level lands in the root *)
RECURSIVE Walk_NoDescend(_, _, _, _)
Walk_NoDescend(d, tmp, plist, params) ==
    IF plist = << >> THEN [d |-> d, tmp |-> tmp]
    ELSE LET pval == PKey(params[Head(plist)])
             d2   == IF HasKey(d, tmp, pval) THEN d ELSE SetDict(d, tmp, pval)
         IN  Walk_NoDescend(d2, tmp, Tail(plist), params)

(* build a hash of hashes grouping model parameters by the param_list *)
RECURSIVE Walk(_, _, _, _)
Walk(d, tmp, plist, params) ==
    IF plist = << >> THEN [d |-> d, tmp |-> tmp]
    ELSE LET pval == PKey(params[Head(plist)])
             d2   == IF HasKey(d, tmp, pval) THEN d ELSE SetDict(d, tmp, pval)
         IN  Walk(d2, Append(tmp, pval), Tail(plist), params)

(* for stat in stats_names: tmp[stat] += np.mean(s[stat]), or = if absent *)
RECURSIVE AddStats(_, _, _, _)
AddStats(d, tmp, names, s) ==
    IF names = << >> THEN d
    ELSE LET stat == SKey(Head(names))
             x    == NpMean(s[Head(names)])
             d2   == IF HasKey(d, tmp, stat)
                     THEN SetVal(d, tmp, stat, RatAdd(d.val[Append(tmp, stat)], x))
                     ELSE SetVal(d, tmp, stat, x)
         IN  AddStats(d2, tmp, Tail(names), s)

(* for exp in exp_in_batch: compute its stats and collect them *)
RECURSIVE CollectExps(_, _, _, _, _, _)
CollectExps(d, tmp, exps, ms, names, skip) ==
    IF exps = << >> THEN [d |-> d, err |-> ""]
    ELSE LET m == ms[Head(exps)]
         IN  IF "rho" \notin DOMAIN m.params \/ "v" \notin DOMAIN m.params
             THEN [d |-> d, err |-> "KeyError"]
             ELSE CollectExps(AddStats(d, tmp, names, ProcessStats(m, skip)),
                              tmp, Tail(exps), ms, names, skip)

(* for stat in stats_names: tmp[stat] /= float(count) *)
RECURSIVE Average(_, _, _, _)
Average(d, tmp, names, count) ==
    IF names = << >> THEN d
    ELSE LET path == Append(tmp, SKey(Head(names)))
         IN  Average([d EXCEPT !.val[path] = RatDiv(@, count)],
                     tmp, Tail(names), count)

(* the body of `for batch in batch_names` *)
ProcessBatch(d, batch, ms, param_list, names, skip) ==
    LET exps  == ExpInBatch(ms, batch)
        count == BatchCount(exps)
    IN  IF PrintFails(ms, batch) THEN [d |-> d, err |-> "KeyError"]
        ELSE LET w == Walk(d, << >>, param_list, ms[batch].params)
                 c == CollectExps(w.d, w.tmp, exps, ms, names, skip)
             IN  IF c.err # "" THEN c
                 ELSE [d |-> Average(c.d, w.tmp, names, count), err |-> ""]

RECURSIVE ProcessBatches(_, _, _, _, _, _)
ProcessBatches(d, bs, ms, param_list, names, skip) ==
    IF bs = << >> THEN [d |-> d, err |-> ""]
    ELSE LET r == ProcessBatch(d, Head(bs), ms, param_list, names, skip)
         IN  IF r.err # "" THEN r
             ELSE ProcessBatches(r.d, Tail(bs), ms, param_list, names, skip)

(* aggregate_model_stats: [d, err]; d is the returned dict when err = "" *)
AggregateModelStats(ms, param_list, names, skip) ==
    IF BadParamList(ms, param_list)
    THEN [d |-> EmptyDict, err |-> "ValueError"]
    ELSE ProcessBatches(EmptyDict, BatchNames(ms), ms, param_list, names, skip)

----------------------------------------------------------------------------
(* The pyplot surface *)

EmptyPlt == [calls |-> << >>, axes |-> << >>, saved |-> << >>, closed |-> 0]

(* plt.plot / plt.quiver: one more artist on the current axes *)
PltDraw(p, artist) ==
    [p EXCEPT !.calls = Append(@, artist), !.axes = Append(@, artist)]

(* a drawing call that raised: it was made, nothing was drawn *)
PltDrawFailed(p, artist) == [p EXCEPT !.calls = Append(@, artist)]

PltSavefig(p, file) == [p EXCEPT !.saved = Append(@, file)]

PltClose(p) == [p EXCEPT !.closed = @ + 1, !.axes = << >>]

PltCla(p) == [p EXCEPT !.axes = << >>]

----------------------------------------------------------------------------
(* analysis/plot_aggregate: plot_2param and plot_3param *)

(* the count check written as `len(param) > 2` *)
Plot2BadCount_OnlyMore(param) == Len(param) > 2

Plot2BadCount(param) == Len(param) # 2

Plot3BadCount(param) == Len(param) # 3

KeyVals(ks) == [i \in 1 .. Len(ks) |-> ks[i].v]

(* one figure of plot_2param: a statistic against the second parameter *)
Plot2Figure(p, st, val, p0) ==
    IF << p0 >> \notin DOMAIN st.kids THEN [plt |-> p, err |-> "AttributeError"]
    ELSE
    LET xval == Keys(st, << p0 >>)
        ok   == \A i \in 1 .. Len(xval) : << p0, xval[i], SKey(val) >> \in DOMAIN st.val
        yval == [i \in 1 .. Len(xval) |-> st.val[<< p0, xval[i], SKey(val) >>]]
        line == [fn |-> "plot", x |-> KeyVals(xval), y |-> yval,
                 tag |-> [val |-> val, p0 |-> p0.v, grp |-> << >>]]
    IN  IF ~ ok THEN [plt |-> p, err |-> "KeyError"]
        ELSE [plt |-> PltCla(PltSavefig(PltDraw(p, line),
                                        [kind |-> "2param", p0 |-> p0.v, val |-> val])),
              err |-> ""]

RECURSIVE Plot2P0s(_, _, _, _)
Plot2P0s(p, st, val, p0s) ==
    IF p0s = << >> THEN [plt |-> p, err |-> ""]
    ELSE LET r == Plot2Figure(p, st, val, Head(p0s))
         IN  IF r.err # "" THEN r ELSE Plot2P0s(r.plt, st, val, Tail(p0s))

RECURSIVE Plot2Vals(_, _, _)
Plot2Vals(p, st, vals) ==
    IF vals = << >> THEN [plt |-> p, err |-> ""]
    ELSE LET r == Plot2P0s(p, st, Head(vals), Keys(st, << >>))
         IN  IF r.err # "" THEN r ELSE Plot2Vals(r.plt, st, Tail(vals))

(* plot_2param(name, stats, param, path) on surface p *)
Plot2Param(p, st, param) ==
    IF Plot2BadCount(param) THEN [plt |-> p, err |-> "ValueError"]
    ELSE Plot2Vals(p, st, Titles)

(* list(set(...)): the set's elements in the interpreter's iteration order *)
SetOrders(S) ==
    { o \in [1 .. Cardinality(S) -> S] : \A i, j \in 1 .. Cardinality(S) :
                                              o[i] = o[j] => i = j }

(* the plot call of one group p2 of plot_3param *)
Plot3Line(st, val, p0, xval, p2) ==
    LET sel    == SelectSeq(xval, LAMBDA p1 : << p0, p1 >> \in DOMAIN st.kids
                                               /\ HasKey(st, << p0, p1 >>, p2))
    IN  [fn |-> "plot", x |-> KeyVals(xval),
         y  |-> [i \in 1 .. Len(sel) |-> st.val[<< p0, sel[i], p2, SKey(val) >>]],
         tag |-> [val |-> val, p0 |-> p0.v, grp |-> << p2.v >>]]

Plot3LineOk(st, val, p0, xval, p2) ==
    \A i \in 1 .. Len(xval) :
        (<< p0, xval[i] >> \in DOMAIN st.kids /\ HasKey(st, << p0, xval[i] >>, p2))
            => << p0, xval[i], p2, SKey(val) >> \in DOMAIN st.val

RECURSIVE Plot3Groups(_, _, _, _, _, _)
Plot3Groups(p, st, val, p0, xval, groups) ==
    IF groups = << >> THEN [plt |-> p, err |-> ""]
    ELSE IF ~ Plot3LineOk(st, val, p0, xval, Head(groups))
         THEN [plt |-> p, err |-> "KeyError"]
    ELSE LET line == Plot3Line(st, val, p0, xval, Head(groups))
         IN  IF Len(line.x) # Len(line.y)
             THEN [plt |-> PltDrawFailed(p, line), err |-> "ValueError"]
             ELSE Plot3Groups(PltDraw(p, line), st, val, p0, xval, Tail(groups))

(* one figure of plot_3param: one line per value of the third parameter *)
Plot3Figure(p, st, val, p0, order) ==
    IF << p0 >> \notin DOMAIN st.kids THEN [plt |-> p, err |-> "AttributeError"]
    ELSE
    LET xval   == Keys(st, << p0 >>)
        p2s    == UNION { IF << p0, xval[i] >> \in DOMAIN st.kids
                          THEN KeySet(st, << p0, xval[i] >>) ELSE {} :
                          i \in 1 .. Len(xval) }
        groups == SelectSeq(order, LAMBDA k : k \in p2s)
        r      == Plot3Groups(p, st, val, p0, xval, groups)
    IN  IF \E i \in 1 .. Len(xval) : << p0, xval[i] >> \notin DOMAIN st.kids
        THEN [plt |-> p, err |-> "AttributeError"]
        ELSE IF r.err # "" THEN r
        ELSE [plt |-> PltCla(PltSavefig(r.plt,
                                 [kind |-> "3param", p0 |-> p0.v, val |-> val])),
              err |-> ""]

RECURSIVE Plot3P0s(_, _, _, _, _)
Plot3P0s(p, st, val, p0s, order) ==
    IF p0s = << >> THEN [plt |-> p, err |-> ""]
    ELSE LET r == Plot3Figure(p, st, val, Head(p0s), order)
         IN  IF r.err # "" THEN r ELSE Plot3P0s(r.plt, st, val, Tail(p0s), order)

RECURSIVE Plot3Vals(_, _, _, _)
Plot3Vals(p, st, vals, order) ==
    IF vals = << >> THEN [plt |-> p, err |-> ""]
    ELSE LET r == Plot3P0s(p, st, Head(vals), Keys(st, << >>), order)
         IN  IF r.err # "" THEN r ELSE Plot3Vals(r.plt, st, Tail(vals), order)

(* plot_3param(name, stats, param, path) on surface p *)
Plot3Param(p, st, param, order) ==
    IF Plot3BadCount(param) THEN [plt |-> p, err |-> "ValueError"]
    ELSE Plot3Vals(p, st, Titles, order)

----------------------------------------------------------------------------
(* Inputs: the experiment directories on disk and the -a options *)

ParamValues == { 1, 2 }

ParamChoices ==
    { ("rho" :> 1) @@ ("eta" :> 1) @@ ("r" :> 1) @@ ("v" :> 1),
      ("rho" :> 1) @@ ("eta" :> 2) @@ ("r" :> 2) @@ ("v" :> 1),
      ("rho" :> 1) @@ ("eta" :> 2) @@ ("r" :> 1) @@ ("v" :> 1),
      ("rho" :> 2) @@ ("eta" :> 1) @@ ("v" :> 1) }

(* a recorded run: a transient of DefaultSkip points, then the steady part *)
Traj(k) ==
    [i \in 1 .. TrajLen |-> IF i <= DefaultSkip THEN 9 ELSE k + (i - DefaultSkip)]

TrajChoices == { Traj(1), Traj(2) }

ExpNames ==
    { << "a" >>, << "a", "b" >>, << "b", "a" >>,
      << "a", "-", "1" >>, << "a", "-", "2" >> }
OtherDir == << "b" >>
FileName == << "a", "a" >>

ModelChoices == [params : ParamChoices, traj : TrajChoices]

NoModel == [params |-> << >>, traj |-> << >>]

EntryChoices ==
    [isdir : { TRUE }, model : ModelChoices] \cup { [isdir |-> FALSE, model |-> NoModel] }

(* repeats of an experiment are runs with the experiment's parameters *)
ValidDisk(f) ==
    \A n \in DOMAIN f :
        /\ f[n].isdir <=> n # FileName
        /\ n = OtherDir =>
              f[n].model = [params |-> CHOOSE c \in ParamChoices : "r" \notin DOMAIN c,
                            traj |-> Traj(1)]
        /\ (HasDash(n) /\ Split(n)[1] \in DOMAIN f) =>
              f[n].model.params = f[Split(n)[1]].model.params

Disks ==
    UNION { { f \in [S -> EntryChoices] : ValidDisk(f) } :
            S \in { T \in SUBSET (ExpNames \cup { OtherDir, FileName }) :
                        Cardinality(T) <= MaxEntries } }

ParamLists ==
    { << >>, << "rho" >>, << "rho", "eta" >>, << "rho", "eta", "r" >>,
      << "rho", "eta", "r", "v" >>, << "eta", "zeta" >> }

NoExc == [type |-> "", by |-> ""]
NoCall == [fn |-> "", t |-> 0, n |-> 0, dt |-> 0, len |-> 0, save |-> FALSE,
           calls0 |-> 0, saved0 |-> 0]

Init ==
    /\ disk \in Disks
    /\ aggregate \in ParamLists
    /\ entry = "none"
    /\ pc = "start"
    /\ steps = << >>
    /\ models = << >>
    /\ stats = EmptyDict
    /\ batches = << >>
    /\ plt = EmptyPlt
    /\ exc = NoExc
    /\ call = NoCall

----------------------------------------------------------------------------
(* plot_results, step by step *)

TooManyParams(agg) == Len(agg) > 3

Dispatch2(agg) == Len(agg) = 2

(* the second dispatch written as `len(aggregate) >= 2` *)
Dispatch3_AtLeast2(agg) == Len(agg) >= 2

Dispatch3(agg) == Len(agg) = 3

(* if len(aggregate) > 3: raise ValueError *)
PlotResultsCheck ==
    /\ pc = "start"
    /\ entry' = "cli"
    /\ steps' = Append(steps, "check")
    /\ IF TooManyParams(aggregate)
       THEN pc' = "raised" /\ exc' = [type |-> "ValueError", by |-> "plot_results"]
       ELSE pc' = "checked" /\ exc' = exc
    /\ UNCHANGED << disk, aggregate, models, stats, batches, plt, call >>

(* models = find_models(path, model); exit(0) when there is none *)
PlotResultsFind ==
    /\ pc = "checked"
    /\ models' = FindModels(disk, ModelName)
    /\ steps' = Append(steps, "find_models")
    /\ pc' = IF DOMAIN models' = {} THEN "exited" ELSE "found"
    /\ UNCHANGED << disk, aggregate, entry, stats, batches, plt, exc, call >>

Aggregated(next) ==
    LET r == AggregateModelStats(models, aggregate, Titles, DefaultSkip)
    IN  /\ steps' = Append(steps, "aggregate_model_stats")
        /\ IF r.err # ""
           THEN /\ pc' = "raised"
                /\ exc' = [type |-> r.err, by |-> "aggregate_model_stats"]
                /\ UNCHANGED << stats, batches >>
           ELSE /\ pc' = next
                /\ stats' = r.d
                /\ batches' = [b \in SeqToSet(BatchNames(models)) |-> ExpInBatch(models, b)]
                /\ exc' = exc
        /\ UNCHANGED << disk, aggregate, entry, models, plt, call >>

(* stats = aggregate_model_stats(models, aggregate, list(titles.keys())) *)
PlotResultsAggregate ==
    /\ pc = "found"
    /\ Aggregated("aggregated")

Plotted(r, step, next, pid) ==
    /\ steps' = Append(steps, step)
    /\ plt' = r.plt
    /\ IF r.err # ""
       THEN pc' = "raised" /\ exc' = [type |-> r.err, by |-> pid]
       ELSE pc' = next /\ exc' = exc
    /\ UNCHANGED << disk, aggregate, entry, models, stats, batches, call >>

(* the first dispatch: plot_2param(model, stats, aggregate, out) for 2 params *)
PlotResultsPlot2 ==
    /\ pc = "aggregated"
    /\ Dispatch2(aggregate)
    /\ Plotted(Plot2Param(plt, stats, aggregate), "plot_2param", "after2", "plot_2param")

PlotResultsSkip2 ==
    /\ pc = "aggregated"
    /\ ~ Dispatch2(aggregate)
    /\ pc' = "after2"
    /\ UNCHANGED << disk, aggregate, entry, steps, models, stats, batches, plt, exc, call >>

(* the second dispatch: plot_3param(model, stats, aggregate, out) for 3 params *)
PlotResultsPlot3 ==
    /\ pc = "after2"
    /\ Dispatch3(aggregate)
    /\ \E order \in SetOrders({ PKey(v) : v \in ParamValues }) :
          Plotted(Plot3Param(plt, stats, aggregate, order),
                  "plot_3param", "done", "plot_3param")

PlotResultsSkip3 ==
    /\ pc = "after2"
    /\ ~ Dispatch3(aggregate)
    /\ pc' = "done"
    /\ UNCHANGED << disk, aggregate, entry, steps, models, stats, batches, plt, exc, call >>

----------------------------------------------------------------------------
(* The functions called directly, as a library *)

CallFindModels ==
    /\ pc = "start"
    /\ entry' = "lib"
    /\ models' = FindModels(disk, ModelName)
    /\ steps' = Append(steps, "find_models")
    /\ pc' = "lib_found"
    /\ UNCHANGED << disk, aggregate, stats, batches, plt, exc, call >>

CallAggregateModelStats ==
    /\ pc = "lib_found"
    /\ Aggregated("lib_aggregated")

CallPlot2Param ==
    /\ pc = "lib_aggregated"
    /\ Plotted(Plot2Param(plt, stats, aggregate), "plot_2param", "lib_done", "plot_2param")

CallPlot3Param ==
    /\ pc = "lib_aggregated"
    /\ \E order \in SetOrders({ PKey(v) : v \in ParamValues }) :
          Plotted(Plot3Param(plt, stats, aggregate, order),
                  "plot_3param", "lib_done", "plot_3param")

Next ==
    \/ PlotResultsCheck
    \/ PlotResultsFind
    \/ PlotResultsAggregate
    \/ PlotResultsPlot2
    \/ PlotResultsSkip2
    \/ PlotResultsPlot3
    \/ PlotResultsSkip3
    \/ CallFindModels
    \/ CallAggregateModelStats
    \/ CallPlot2Param
    \/ CallPlot3Param

Spec == Init /\ [][Next]_vars

----------------------------------------------------------------------------
(* Properties of the aggregation *)

AggReturned ==
    /\ \E i \in 1 .. Len(steps) : steps[i] = "aggregate_model_stats"
    /\ exc.by # "aggregate_model_stats"

AggCalled == \E i \in 1 .. Len(steps) : steps[i] = "aggregate_model_stats"

Called(step) == \E i \in 1 .. Len(steps) : steps[i] = step

StatKeys == { SKey(Titles[i]) : i \in 1 .. Len(Titles) }

BatchPath(b) ==
    [i \in 1 .. Len(aggregate) |-> PKey(models[b].params[aggregate[i]])]

BatchPaths == { BatchPath(b) : b \in DOMAIN batches }

HasTuple(m, path) ==
    \A i \in 1 .. Len(aggregate) :
        /\ aggregate[i] \in DOMAIN m.params
        /\ PKey(m.params[aggregate[i]]) = path[i]

RECURSIVE RatSum(_, _)
RatSum(E, stat) ==
    IF E = {} THEN << 0, 1 >>
    ELSE LET e == CHOOSE x \in E : TRUE
         IN  RatAdd(NpMean(ProcessStats(models[e], DefaultSkip)[stat]),
                    RatSum(E \ {e}, stat))

ExpectedMean(path, stat) ==
    LET E == { e \in DOMAIN models : HasTuple(models[e], path) }
    IN  RatDiv(RatSum(E, stat), Cardinality(E))

(* C1: the value returned for a statistic at a parameter tuple's leaf is the   *)
(* mean, over all experiments having that parameter tuple, of the statistic's  *)
(* time-average from index skip on (the divisor is the number of experiments   *)
(* summed into the leaf).                                                      *)
C1_LeafIsMeanOverExperiments ==
    AggReturned =>
        \A path \in BatchPaths : \A i \in 1 .. Len(Titles) :
            LET leaf == Append(path, SKey(Titles[i]))
            IN  /\ leaf \in DOMAIN stats.val
                /\ RatEq(stats.val[leaf], ExpectedMean(path, Titles[i]))

(* C2: every loaded experiment is counted in exactly one batch, the batch of   *)
(* its base name (the part before '-').                                        *)
C2_EveryExperimentInItsBatchOnly ==
    AggReturned =>
        \A e \in DOMAIN models :
            /\ \E b \in DOMAIN batches : e \in SeqToSet(batches[b])
            /\ \A b \in DOMAIN batches :
                  e \in SeqToSet(batches[b]) => b = Split(e)[1]

(* C3: the returned dict is nested exactly len(param_list) levels deep, level  *)
(* i keyed by values of param_list[i]; a path of parameter values exists iff   *)
(* some batch has those values; each such path ends in a dict whose keys are   *)
(* exactly stats_names; no statistic name at an intermediate level and no      *)
(* parameter value at a leaf level.                                            *)
C3_NestedByParamList ==
    AggReturned =>
        LET n     == Len(aggregate)
            paths == DOMAIN stats.kids
        IN  /\ \A p \in paths : Len(p) <= n
            /\ \A p \in paths : Len(p) > 0 =>
                  /\ SubSeq(p, 1, Len(p) - 1) \in paths
                  /\ HasKey(stats, SubSeq(p, 1, Len(p) - 1), p[Len(p)])
            /\ \A p \in paths : Len(p) < n =>
                  \A k \in KeySet(stats, p) :
                      /\ k.k = "param"
                      /\ Append(p, k) \in paths
                      /\ Append(p, k) \notin DOMAIN stats.val
                      /\ \E b \in DOMAIN batches :
                            k = PKey(models[b].params[aggregate[Len(p) + 1]])
            /\ { p \in paths : Len(p) = n /\ (n > 0 \/ DOMAIN batches # {}) } = BatchPaths
            /\ \A p \in BatchPaths :
                  /\ p \in paths
                  /\ KeySet(stats, p) = StatKeys
                  /\ Len(Keys(stats, p)) = Len(Titles)
            /\ \A p \in paths : (Len(p) = n /\ p \notin BatchPaths) => Keys(stats, p) = << >>
            /\ DOMAIN stats.val = { Append(p, k) : p \in BatchPaths, k \in StatKeys }

C3_Witness ==
    /\ AggReturned
    /\ Len(aggregate) = 3
    /\ Cardinality(BatchPaths) = 2
    /\ Len(Keys(stats, << >>)) = 1

(* C4: aggregate_model_stats raises ValueError iff some name of param_list is  *)
(* not among the parameters of the loaded models; when it does not, looking up *)
(* every name of param_list in the params of every batch's model succeeds.     *)
C4_ValueErrorIffLookupFails ==
    AggCalled =>
        /\ (exc = [type |-> "ValueError", by |-> "aggregate_model_stats"])
              <=> (\E i \in 1 .. Len(aggregate) : aggregate[i] \notin ModelParams(models))
        /\ (exc # [type |-> "ValueError", by |-> "aggregate_model_stats"]) =>
              \A b \in SeqToSet(BatchNames(models)) : \A i \in 1 .. Len(aggregate) :
                  aggregate[i] \in DOMAIN models[b].params

----------------------------------------------------------------------------
(* Properties of the plotting steps *)

LastStep == IF steps = << >> THEN "" ELSE steps[Len(steps)]

(* C5: a bad parameter count raises ValueError and produces no output:         *)
(* plot_2param when len(param) # 2, plot_3param when len(param) # 3, both      *)
(* before any figure is drawn or file saved; plot_results when more than 3     *)
(* parameters are given, before any model is loaded, aggregated or plotted.    *)
C5_BadCountRaisesBeforeOutput ==
    /\ (LastStep = "plot_2param" /\ Len(aggregate) # 2) =>
          /\ pc = "raised"
          /\ exc = [type |-> "ValueError", by |-> "plot_2param"]
          /\ plt = EmptyPlt
    /\ (LastStep = "plot_3param" /\ Len(aggregate) # 3) =>
          /\ pc = "raised"
          /\ exc = [type |-> "ValueError", by |-> "plot_3param"]
          /\ plt = EmptyPlt
    /\ (entry = "cli" /\ Len(aggregate) > 3) =>
          /\ pc = "raised"
          /\ exc = [type |-> "ValueError", by |-> "plot_results"]
          /\ steps = << "check" >>
          /\ models = << >>
          /\ stats = EmptyDict
          /\ plt = EmptyPlt

C5_Witness ==
    /\ LastStep = "plot_2param"
    /\ Len(aggregate) = 3
    /\ Keys(stats, << >>) # << >>
    /\ exc.type = "ValueError"

StepOrder == << "check", "find_models", "aggregate_model_stats" >>

(* C6: in a run of plot_results the steps occur in the order count check,      *)
(* model discovery, aggregation, plotting; no plot file is written unless a    *)
(* model was found and the aggregation returned; with no model the run ends    *)
(* without aggregation or plot; the plotting step calls plot_2param exactly    *)
(* when 2 parameters were given, plot_3param exactly when 3, never both.       *)
C6_PlotResultsOrder ==
    entry = "cli" =>
        /\ Len(steps) <= 4
        /\ \A i \in 1 .. Len(steps) :
              IF i <= 3 THEN steps[i] = StepOrder[i]
              ELSE steps[i] \in { "plot_2param", "plot_3param" }
        /\ (plt.saved # << >> \/ plt.calls # << >>) =>
              /\ DOMAIN models # {}
              /\ AggReturned
        /\ (Called("find_models") /\ DOMAIN models = {}) =>
              /\ pc = "exited"
              /\ ~ AggCalled
              /\ plt = EmptyPlt
        /\ Called("plot_2param") => Len(aggregate) = 2
        /\ Called("plot_3param") => Len(aggregate) = 3
        /\ pc \in { "after2", "done" } => (Len(aggregate) = 2 => Called("plot_2param"))
        /\ pc = "done" => (Len(aggregate) = 3 => Called("plot_3param"))
        /\ ~ (Called("plot_2param") /\ Called("plot_3param"))

C6_Witness ==
    /\ entry = "cli"
    /\ pc = "done"
    /\ steps = Append(StepOrder, "plot_3param")
    /\ Len(plt.saved) >= Len(Titles)

(* C9: in plot_3param the x and y sequences passed to each plot call have the  *)
(* same length and the i-th y value is the statistic of the i-th x value under *)
(* the group p2, also when p2 occurs under only some second-parameter values.  *)
C9_Plot3XYAligned ==
    \A i \in 1 .. Len(plt.calls) :
        LET c == plt.calls[i]
        IN  (c.fn = "plot" /\ Len(c.tag.grp) = 1) =>
                /\ Len(c.x) = Len(c.y)
                /\ \A j \in 1 .. Len(c.x) :
                      LET leaf == << PKey(c.tag.p0), PKey(c.x[j]),
                                     PKey(c.tag.grp[1]), SKey(c.tag.val) >>
                      IN  j <= Len(c.y) /\ leaf \in DOMAIN stats.val
                                        /\ c.y[j] = stats.val[leaf]

----------------------------------------------------------------------------
(* util/plot: the frame plotting functions *)

(* positions of n particles: X[i] is the 2D position of particle i *)
Positions(n) == [i \in 1 .. n |-> << i, 2 * i >>]

(* the first len positions of a particle moving one unit per step along x in a *)
(* periodic world of size l (wrap = TRUE) or resting in place (wrap = FALSE)   *)
Path(len, wrap, l) ==
    [i \in 1 .. len |-> << IF wrap THEN (i - 1) % l ELSE 1, 1 >>]

Abs(x) == IF x < 0 THEN 0 - x ELSE x

(* Xt[lo:hi] with Python's clamping of the slice bounds; Xt[k] is Xt[k + 1] here *)
Slice(Xt, lo, hi) ==
    LET h == IF hi > Len(Xt) THEN Len(Xt) ELSE hi
    IN  SubSeq(Xt, lo + 1, h)

(* the window of plot_trajectory: Xt[t-dt-1:t+1] if t > dt else Xt[0:t+1] *)
WindowStart(t, dt) == IF t > dt THEN t - dt - 1 ELSE 0

Window(t, Xt, dt) == Slice(Xt, WindowStart(t, dt), t + 1)

(* np.hstack([np.abs(np.diff(c)) >= l - 1, [False]]) *)
JumpMask(c, l) ==
    [i \in 1 .. Len(c) |-> IF i < Len(c) THEN Abs(c[i + 1] - c[i]) >= l - 1 ELSE FALSE]

Column(W, k) == [i \in 1 .. Len(W) |-> W[i][k]]

(* plot_trajectory(t, Xt, l, col, dt) on surface p *)
PlotTrajectory(p, t, Xt, l, dt) ==
    LET W == Window(t, Xt, dt)
    IN  IF t > 0
        THEN PltDraw(p, [fn |-> "plot", x |-> Column(W, 1), y |-> Column(W, 2),
                         tag |-> [first |-> WindowStart(t, dt),
                                  last  |-> WindowStart(t, dt) + Len(W) - 1,
                                  maskx |-> JumpMask(Column(W, 1), l),
                                  masky |-> JumpMask(Column(W, 2), l)]])
        ELSE p

(* for i in range(n): plot_vector_ang(X[i], A[i], V[i]) *)
RECURSIVE DrawVectors(_, _, _)
DrawVectors(p, X, i) ==
    IF i > Len(X) THEN p
    ELSE DrawVectors(PltDraw(p, [fn |-> "quiver", x |-> << X[i][1] >>,
                                 y |-> << X[i][2] >>, tag |-> [particle |-> i]]),
                     X, i + 1)

(* if save: plt.savefig(...); plt.close() -- then plt.cla() *)
SaveAndClear(p, save, file) ==
    PltCla(IF save THEN PltClose(PltSavefig(p, file)) ELSE p)

(* plot_state_vectors(t, X, A, V, l, ..., sumvec, save) on surface p *)
PlotStateVectors(p, t, X, l, sumvec, save) ==
    LET drawn == DrawVectors(p, X, 1)
        summed == IF sumvec
                  THEN PltDraw(drawn, [fn |-> "plot", x |-> << l, l >>, y |-> << l, l >>,
                                       tag |-> [particle |-> 0]])
                  ELSE drawn
    IN  [plt |-> SaveAndClear(summed, save, [kind |-> "jpg", t |-> t]), err |-> ""]

(* the names util/plot gets from `from util.geometry import *` *)
GeometryNames == { "ang_to_vec", "sum_vec_ang", "centre_of_mass", "EnumBounds" }

(* the names a read inside plot_state resolves: its parameters and locals, the *)
(* module's imports and functions                                              *)
PlotStateNames ==
    { "t", "X", "A", "v", "l", "title", "subtitle", "path", "save", "show", "n", "i", "S" }
        \cup { "plt", "np", "typing", "prepare_state_plot", "plot_particle", "plot_vector",
               "plot_vector_ang", "plot_oscillator", "plot_trajectory", "plot_state",
               "plot_state_vectors", "plot_state_particles_trajectories",
               "plot_state_oscillators", "plot_trajectories" }
        \cup GeometryNames

(* plot_state(t, X, A, v, l, ..., save) on surface p: the body of              *)
(* plot_state_vectors, reading V[i] in the loop and sumvec after it            *)
PlotState(p, t, X, l, save) ==
    IF Len(X) > 0 /\ "V" \notin PlotStateNames
    THEN [plt |-> p, err |-> "NameError"]
    ELSE LET drawn == DrawVectors(p, X, 1)
         IN  IF "sumvec" \notin PlotStateNames
             THEN [plt |-> drawn, err |-> "NameError"]
             ELSE [plt |-> SaveAndClear(drawn, save, [kind |-> "jpg", t |-> t]),
                   err |-> ""]

(* plot_trajectories(X, M, l, ...): all particles and the centre of mass over  *)
(* the whole run, T time points each                                           *)
RECURSIVE DrawTrajectories(_, _, _, _, _)
DrawTrajectories(p, T, n, wrap, l) ==
    IF n = 0 THEN p
    ELSE DrawTrajectories(PlotTrajectory(p, T, Path(T, wrap, l), l, T), T, n - 1, wrap, l)

PlotTrajectories(p, T, n, wrap, l, save) ==
    LET particles == DrawTrajectories(PltCla(p), T, n, wrap, l)
        cmass     == PlotTrajectory(particles, T, Path(T, FALSE, l), l, T)
    IN  [plt |-> SaveAndClear(cmass, save, [kind |-> "png", t |-> T]), err |-> ""]

InitPlot ==
    /\ disk = << >>
    /\ aggregate = << >>
    /\ entry = "plot"
    /\ pc = "idle"
    /\ steps = << >>
    /\ models = << >>
    /\ stats = EmptyDict
    /\ batches = << >>
    /\ plt = EmptyPlt
    /\ exc = NoExc
    /\ call = NoCall

CanCall == pc = "idle" /\ Len(steps) < MaxCalls

Finished(r, c) ==
    /\ steps' = Append(steps, c.fn)
    /\ call' = [c EXCEPT !.calls0 = Len(plt.calls), !.saved0 = Len(plt.saved)]
    /\ plt' = r.plt
    /\ IF r.err # ""
       THEN pc' = "raised" /\ exc' = [type |-> r.err, by |-> c.fn]
       ELSE pc' = "idle" /\ exc' = exc
    /\ UNCHANGED << disk, aggregate, entry, models, stats, batches >>

CallPlotState ==
    /\ CanCall
    /\ \E t \in 0 .. MaxFrame, n \in 0 .. MaxParticles, save \in BOOLEAN :
           Finished(PlotState(plt, t, Positions(n), WorldSize, save),
                    [NoCall EXCEPT !.fn = "plot_state", !.t = t, !.n = n, !.save = save])

CallPlotStateVectors ==
    /\ CanCall
    /\ \E t \in 0 .. MaxFrame, n \in 0 .. MaxParticles, save \in BOOLEAN, sumvec \in BOOLEAN :
           Finished(PlotStateVectors(plt, t, Positions(n), WorldSize, sumvec, save),
                    [NoCall EXCEPT !.fn = "plot_state_vectors", !.t = t, !.n = n,
                                   !.save = save])

CallPlotTrajectory ==
    /\ CanCall
    /\ \E t \in 0 .. MaxFrame, dt \in 1 .. MaxWindow, wrap \in BOOLEAN :
           Finished([plt |-> PlotTrajectory(plt, t, Path(t + 1, wrap, WorldSize),
                                            WorldSize, dt),
                     err |-> ""],
                    [NoCall EXCEPT !.fn = "plot_trajectory", !.t = t, !.dt = dt,
                                   !.len = t + 1])

CallPlotTrajectories ==
    /\ CanCall
    /\ \E T \in 0 .. MaxFrame, n \in 0 .. MaxParticles, save \in BOOLEAN, wrap \in BOOLEAN :
           Finished(PlotTrajectories(plt, T, n, wrap, WorldSize, save),
                    [NoCall EXCEPT !.fn = "plot_trajectories", !.t = T, !.n = n,
                                   !.dt = T, !.len = T, !.save = save])

NextPlot ==
    \/ CallPlotState
    \/ CallPlotStateVectors
    \/ CallPlotTrajectory
    \/ CallPlotTrajectories

SpecPlot == InitPlot /\ [][NextPlot]_vars

----------------------------------------------------------------------------
(* Properties of the frame plotting functions *)

NewCalls == SubSeq(plt.calls, call.calls0 + 1, Len(plt.calls))

NewSaved == SubSeq(plt.saved, call.saved0 + 1, Len(plt.saved))

Min(a, b) == IF a < b THEN a ELSE b

(* C7: plot_state with N particles draws exactly N velocity vectors, one at    *)
(* each particle's position, writes exactly one image {path}/{t}.jpg if save   *)
(* and none otherwise, and returns normally with the surface cleared.          *)
C7_PlotStateDrawsAndSaves ==
    call.fn = "plot_state" =>
        /\ exc = NoExc
        /\ Len(NewCalls) = call.n
        /\ \A i \in 1 .. Len(NewCalls) :
              /\ NewCalls[i].fn = "quiver"
              /\ << NewCalls[i].x[1], NewCalls[i].y[1] >> = Positions(call.n)[i]
        /\ NewSaved = IF call.save THEN << [kind |-> "jpg", t |-> call.t] >> ELSE << >>
        /\ plt.axes = << >>

(* C8: plot_trajectory draws nothing when t = 0; otherwise the window it plots *)
(* ends at time index t, holds min(t + 1, dt) positions and none older than    *)
(* the last dt time points.                                                    *)
C8_TrajectoryWindowIsLastDt ==
    call.fn = "plot_trajectory" =>
        IF call.t = 0 THEN NewCalls = << >>
        ELSE /\ Len(NewCalls) = 1
             /\ NewCalls[1].tag.last = call.t
             /\ Len(NewCalls[1].x) = Min(call.t + 1, call.dt)
             /\ NewCalls[1].tag.first >= call.t - call.dt + 1

====
